---- MODULE Spec2Model ----
(***************************************************************************)
(* SysDBoard/dashboard.py: six floating resource widgets (ResourceWidget), *)
(* their background update threads, the Tk main loop with its control      *)
(* window, the pystray menu thread, and the widget_config.json file.       *)
(*                                                                         *)
(* Threads of the program and how they appear here:                        *)
(*   "ui"     the Tk main loop: button commands, <Configure> handlers and  *)
(*            after(0, ...) callbacks, one handler at a time;              *)
(*   "tray"   the pystray thread: menu commands run on it;                 *)
(*   workers  one threading.Thread per create_widget call, running         *)
(*            ResourceWidget.update.                                       *)
(* A handler is a sequence of steps, one per statement that reads or       *)
(* writes shared state, so that the other threads interleave with it as    *)
(* the interpreter lets them.                                              *)
(***************************************************************************)
EXTENDS Integers, Sequences, FiniteSets, TLC

\* widgets list of __main__, in its order (restart_all and on_quit iterate it).
WidgetNames == <<"cpu", "ram", "disk", "battery", "risk", "network">>

Widgets == {WidgetNames[i] : i \in 1..Len(WidgetNames)}

\* self.root = None
NoRoot == 0

\* The two threads that run control commands.
Ctl == {"ui", "tray"}

(***************************************************************************)
(* Bounds of the model.                                                    *)
(***************************************************************************)
\* Events from outside in a behaviour of the panel specifications: a control
\* command, a metric-source call that raises, a <Configure> event that
\* reports a new position.
MaxEvents == 2
\* Control commands in a behaviour of the registry specification.
MaxCommands == 1
\* New starts of the program after it has exited.
MaxRuns == 1
\* after(0, ...) callbacks pending in the Tk event queue.
MaxQueue == 1

VARIABLES
    phase,      \* "running" | "exited" (os._exit after mainloop returns)
    enabled,    \* widget.enabled
    posMem,     \* widget.x, widget.y
    root,       \* widget.root: NoRoot or the id of the Toplevel it refers to
    label,      \* widget.label: the id of the surface whose label it is
    running,    \* widget.running
    cfgEn,      \* config[name_widget]["enabled"]
    cfgPos,     \* config[name_widget]["x"], ["y"]
    diskEn,     \* widget_config.json: enabled
    diskPos,    \* widget_config.json: x, y
    alive,      \* ids of the widget's Toplevels that are not destroyed
    made,       \* Toplevels created for the widget in this run
    text,       \* content shown by widget.label
    uiq,        \* pending after(0, ...) callbacks, in order
    thr,        \* per widget, the update threads started in this run
    ctl,        \* what each control thread is executing
    bootEn,     \* the file's enabled flags when this run started
    calc,       \* a function of the program under evaluation: its input, then its result
    events,     \* events the behaviour may still take
    runs        \* new starts the behaviour may still take

widgetVars == <<enabled, posMem, root, label, running>>
cfgVars == <<cfgEn, cfgPos>>
diskVars == <<diskEn, diskPos>>
tkVars == <<alive, made, text, uiq>>
budgetVars == <<events, runs>>
vars == <<phase, widgetVars, cfgVars, diskVars, tkVars, thr, ctl, bootEn, calc, budgetVars>>

(***************************************************************************)
(* Configuration file and startup (load_config, initialize_grid_positions, *)
(* __main__ steps 1-6).                                                    *)
(***************************************************************************)
\* initialize_grid_positions: widget_width, margin.
WidgetWidth == 200
Margin == 10

\* root.winfo_screenwidth() of the primary display.
ScreenWidths == {1920}

\* Positions a <Configure> event reports (winfo_x, winfo_y).
MovedPositions == {<<40, 60>>}

Index(w) == CHOOSE i \in 1..Len(WidgetNames) : WidgetNames[i] = w

\* positions[i] of initialize_grid_positions (i counted from 1 here).
GridPosition(w, sw) ==
    <<(sw - 6 * WidgetWidth - Margin) + (Index(w) - 1) * WidgetWidth, Margin>>

\* The loop of initialize_grid_positions over a config that holds every name.
InitializeGridPositions(pos, sw) ==
    [w \in Widgets |-> IF pos[w] = <<0, 0>> THEN GridPosition(w, sw) ELSE pos[w]]

\* No function is under evaluation.
NoCalc == [fn |-> "none", pc |-> "none"]

\* label text before the first render / no label yet.
InitText == [kind |-> "init", why |-> ""]
NoText == [kind |-> "none", why |-> ""]

Idle == [k |-> "idle", w |-> "none", en |-> FALSE, pc |-> "idle", i |-> 0,
         g |-> 0, p |-> <<0, 0>>, solo |-> TRUE]

\* A thread started by create_widget, at the top of update's while loop.
NewThread(g) == [pc |-> "loop", g |-> g, why |-> ""]

(* __main__: config = load_config(); initialize_grid_positions() (which     *)
(* saves); the six ResourceWidget objects; create_widget for the enabled   *)
(* ones. de, dp: the file's content when the process starts. The result is *)
(* the state in which the main loop and the tray thread start.             *)
Booted(de, dp, sw) ==
    LET gp == InitializeGridPositions(dp, sw) IN
    [cfgEn |-> de, cfgPos |-> gp, diskEn |-> de, diskPos |-> gp,
     enabled |-> de, posMem |-> gp,
     root |-> [w \in Widgets |-> IF de[w] THEN 1 ELSE NoRoot],
     label |-> [w \in Widgets |-> IF de[w] THEN 1 ELSE NoRoot],
     running |-> de,
     alive |-> [w \in Widgets |-> IF de[w] THEN {1} ELSE {}],
     made |-> [w \in Widgets |-> IF de[w] THEN 1 ELSE 0],
     text |-> [w \in Widgets |-> IF de[w] THEN InitText ELSE NoText],
     thr |-> [w \in Widgets |-> IF de[w] THEN <<NewThread(1)>> ELSE <<>>]]

\* The file of a first run: every position (0, 0).
FreshPos == [w \in Widgets |-> <<0, 0>>]

\* The process starts with a file whose enabled flags are one of startSets.
InitWith(startSets, e, r) ==
    \E es \in startSets : \E sw \in ScreenWidths :
        LET b == Booted([w \in Widgets |-> w \in es], FreshPos, sw) IN
        /\ phase = "running"
        /\ cfgEn = b.cfgEn /\ cfgPos = b.cfgPos
        /\ diskEn = b.diskEn /\ diskPos = b.diskPos
        /\ enabled = b.enabled /\ posMem = b.posMem
        /\ root = b.root /\ label = b.label /\ running = b.running
        /\ alive = b.alive /\ made = b.made /\ text = b.text
        /\ thr = b.thr
        /\ uiq = <<>>
        /\ ctl = [x \in Ctl |-> Idle]
        /\ bootEn = b.diskEn
        /\ events = e /\ runs = r

\* A new run of the program after os._exit(0): __main__ again, from the file.
Startup ==
    /\ phase = "exited"
    /\ runs > 0
    /\ \E sw \in ScreenWidths :
        LET b == Booted(diskEn, diskPos, sw) IN
        /\ phase' = "running"
        /\ cfgEn' = b.cfgEn /\ cfgPos' = b.cfgPos
        /\ diskEn' = b.diskEn /\ diskPos' = b.diskPos
        /\ enabled' = b.enabled /\ posMem' = b.posMem
        /\ root' = b.root /\ label' = b.label /\ running' = b.running
        /\ alive' = b.alive /\ made' = b.made /\ text' = b.text
        /\ thr' = b.thr
        /\ uiq' = <<>>
        /\ ctl' = [x \in Ctl |-> Idle]
        /\ bootEn' = b.diskEn
    /\ runs' = runs - 1
    /\ UNCHANGED <<events, calc>>

(***************************************************************************)
(* Control threads: the statements of toggle, stop, create_widget,         *)
(* restart_all, on_quit and save_position.                                 *)
(***************************************************************************)
Other(c) == IF c = "ui" THEN "tray" ELSE "ui"

Busy(c) == ctl[c].k \notin {"idle", "ended"}

\* Thread c moves to op; a command of the other thread that is in progress
\* (or finished and not yet returned) is no longer alone.
Goto(c, op) ==
    ctl' = [x \in Ctl |->
              IF x = c THEN op
              ELSE IF Busy(x) THEN [ctl[x] EXCEPT !.solo = FALSE]
              ELSE ctl[x]]

\* A restart_all that calls create_widget's body after every stop(), without
\* looking at widget.enabled.
AfterStopStartsAll(op) ==
    CASE op.k = "toggle" -> [op EXCEPT !.pc = "ret"]
      [] op.k = "restart" -> [op EXCEPT !.pc = "c_root"]
      [] op.k = "quit" ->
            IF op.i < Len(WidgetNames)
            THEN [op EXCEPT !.i = op.i + 1, !.w = WidgetNames[op.i + 1], !.pc = "s_run"]
            ELSE [op EXCEPT !.pc = "q_end"]

\* The statement after stop() returns, per caller.
AfterStop(op) ==
    CASE op.k = "toggle" -> [op EXCEPT !.pc = "ret"]
      [] op.k = "restart" -> [op EXCEPT !.pc = "r_enabled"]
      [] op.k = "quit" ->
            IF op.i < Len(WidgetNames)
            THEN [op EXCEPT !.i = op.i + 1, !.w = WidgetNames[op.i + 1], !.pc = "s_run"]
            ELSE [op EXCEPT !.pc = "q_end"]

\* The statement after create_widget() returns (or after restart_all skips
\* it), per caller: restart_all goes on with the next widget.
AfterCreate(op) ==
    CASE op.k = "toggle" -> [op EXCEPT !.pc = "ret"]
      [] op.k = "restart" ->
            IF op.i < Len(WidgetNames)
            THEN [op EXCEPT !.i = op.i + 1, !.w = WidgetNames[op.i + 1], !.pc = "s_run"]
            ELSE [op EXCEPT !.pc = "ret"]

\* A save that writes the positions and leaves the enabled flags of the file.
SaveConfigPositionsOnly ==
    /\ diskEn' = diskEn
    /\ diskPos' = cfgPos

\* save_config(config): json.dump of the whole config to the file.
SaveConfig ==
    /\ diskEn' = cfgEn
    /\ diskPos' = cfgPos

AtPc(c, pc) == phase = "running" /\ ctl[c].pc = pc

CanStart(c) == phase = "running" /\ ctl[c].k = "idle" /\ events > 0

\* toggle_widget(widget_name) of the tray menu and of the control window:
\* widget.toggle(not widget.enabled); the flag is read here.
ToggleWidget(c, w) ==
    /\ CanStart(c)
    /\ Goto(c, [Idle EXCEPT !.k = "toggle", !.w = w, !.en = ~enabled[w],
                            !.pc = "t_set", !.solo = ~Busy(Other(c))])
    /\ events' = events - 1
    /\ UNCHANGED <<phase, widgetVars, cfgVars, diskVars, tkVars, thr, bootEn, calc, runs>>

\* toggle: self.enabled = enable
ToggleSetEnabled(c) ==
    /\ AtPc(c, "t_set")
    /\ enabled' = [enabled EXCEPT ![ctl[c].w] = ctl[c].en]
    /\ Goto(c, [ctl[c] EXCEPT !.pc = "t_cfg"])
    /\ UNCHANGED <<phase, posMem, root, label, running, cfgVars, diskVars,
                   tkVars, thr, bootEn, calc, budgetVars>>

\* toggle: config[f"{self.name}_widget"]["enabled"] = enable
ToggleSetConfig(c) ==
    /\ AtPc(c, "t_cfg")
    /\ cfgEn' = [cfgEn EXCEPT ![ctl[c].w] = ctl[c].en]
    /\ Goto(c, [ctl[c] EXCEPT !.pc = "t_save"])
    /\ UNCHANGED <<phase, widgetVars, cfgPos, diskVars, tkVars, thr, bootEn, calc, budgetVars>>

\* toggle: save_config(config)
ToggleSave(c) ==
    /\ AtPc(c, "t_save")
    /\ SaveConfig
    /\ Goto(c, [ctl[c] EXCEPT !.pc = "t_branch"])
    /\ UNCHANGED <<phase, widgetVars, cfgVars, tkVars, thr, bootEn, calc, budgetVars>>

\* toggle: save_config(config) raises (open() or the write fails; the file
\* is taken to stay as it was). Nothing in toggle or its callers catches
\* it: the exception leaves toggle.
ToggleSaveRaises(c) ==
    /\ AtPc(c, "t_save")
    /\ events > 0
    /\ Goto(c, [ctl[c] EXCEPT !.pc = "raised"])
    /\ events' = events - 1
    /\ UNCHANGED <<phase, widgetVars, cfgVars, diskVars, tkVars, thr, bootEn, calc, runs>>

\* The exception reaches the caller of the command (Tk's
\* report_callback_exception, pystray's handler), which reports it and
\* goes on.
ReturnRaised(c) ==
    /\ AtPc(c, "raised")
    /\ Goto(c, Idle)
    /\ UNCHANGED <<phase, widgetVars, cfgVars, diskVars, tkVars, thr, bootEn, calc, budgetVars>>

\* toggle: if enable and not self.root: create_widget()
\*         elif not enable and self.root: stop()
ToggleBranch(c) ==
    /\ AtPc(c, "t_branch")
    /\ LET op == ctl[c] IN
       Goto(c, IF op.en /\ root[op.w] = NoRoot THEN [op EXCEPT !.pc = "c_check"]
               ELSE IF ~op.en /\ root[op.w] # NoRoot THEN [op EXCEPT !.pc = "s_run"]
               ELSE [op EXCEPT !.pc = "ret"])
    /\ UNCHANGED <<phase, widgetVars, cfgVars, diskVars, tkVars, thr, bootEn, calc, budgetVars>>

\* create_widget: if not self.enabled: return
CreateCheckEnabled(c) ==
    /\ AtPc(c, "c_check")
    /\ Goto(c, IF enabled[ctl[c].w] THEN [ctl[c] EXCEPT !.pc = "c_root"]
               ELSE AfterCreate(ctl[c]))
    /\ UNCHANGED <<phase, widgetVars, cfgVars, diskVars, tkVars, thr, bootEn, calc, budgetVars>>

\* create_widget: self.root = tk.Toplevel() ... self.label = ttk.Label(...)
\* ... self.root.bind("<Configure>", self.save_position)
CreateSurface(c) ==
    /\ AtPc(c, "c_root")
    /\ LET w == ctl[c].w
           g == made[w] + 1 IN
       /\ made' = [made EXCEPT ![w] = g]
       /\ alive' = [alive EXCEPT ![w] = @ \cup {g}]
       /\ root' = [root EXCEPT ![w] = g]
       /\ label' = [label EXCEPT ![w] = g]
       /\ text' = [text EXCEPT ![w] = InitText]
       /\ Goto(c, [ctl[c] EXCEPT !.pc = "c_run", !.g = g])
    /\ UNCHANGED <<phase, enabled, posMem, running, cfgVars, diskVars, uiq,
                   thr, bootEn, calc, budgetVars>>

\* create_widget: self.running = True; self.thread = Thread(target=self.update);
\* self.thread.start()
CreateStartThread(c) ==
    /\ AtPc(c, "c_run")
    /\ LET w == ctl[c].w IN
       /\ running' = [running EXCEPT ![w] = TRUE]
       /\ thr' = [thr EXCEPT ![w] = Append(@, NewThread(ctl[c].g))]
    /\ Goto(c, AfterCreate(ctl[c]))
    /\ UNCHANGED <<phase, enabled, posMem, root, label, cfgVars, diskVars,
                   tkVars, bootEn, calc, budgetVars>>

\* A stop() that also clears the widget's enabled flag.
StopClearsEnabled(c) ==
    /\ AtPc(c, "s_run")
    /\ running' = [running EXCEPT ![ctl[c].w] = FALSE]
    /\ enabled' = [enabled EXCEPT ![ctl[c].w] = FALSE]
    /\ Goto(c, [ctl[c] EXCEPT !.pc = "s_destroy"])
    /\ UNCHANGED <<phase, posMem, root, label, cfgVars, diskVars,
                   tkVars, thr, bootEn, calc, budgetVars>>

\* A stop() that leaves self.running as it is.
StopKeepsRunning(c) ==
    /\ AtPc(c, "s_run")
    /\ Goto(c, [ctl[c] EXCEPT !.pc = "s_destroy"])
    /\ UNCHANGED <<phase, widgetVars, cfgVars, diskVars,
                   tkVars, thr, bootEn, calc, budgetVars>>

\* stop: self.running = False
StopClearRunning(c) ==
    /\ AtPc(c, "s_run")
    /\ running' = [running EXCEPT ![ctl[c].w] = FALSE]
    /\ Goto(c, [ctl[c] EXCEPT !.pc = "s_destroy"])
    /\ UNCHANGED <<phase, enabled, posMem, root, label, cfgVars, diskVars,
                   tkVars, thr, bootEn, calc, budgetVars>>

\* Toplevel.destroy(): the window and its label go, and Tk deletes the
\* commands registered through this window, the pending after callbacks
\* among them.
Destroyed(q, w, g) ==
    SelectSeq(q, LAMBDA cb : ~(cb.w = w /\ cb.reg = g))

\* stop: if self.root: self.root.destroy()
StopDestroy(c) ==
    /\ AtPc(c, "s_destroy")
    /\ LET w == ctl[c].w IN
       IF root[w] # NoRoot
       THEN /\ alive' = [alive EXCEPT ![w] = @ \ {root[w]}]
            /\ uiq' = Destroyed(uiq, w, root[w])
            /\ Goto(c, [ctl[c] EXCEPT !.pc = "s_clear"])
       ELSE /\ UNCHANGED <<alive, uiq>>
            /\ Goto(c, AfterStop(ctl[c]))
    /\ UNCHANGED <<phase, widgetVars, cfgVars, diskVars, made, text, thr, bootEn, calc, budgetVars>>

\* stop: self.root = None
StopClearRoot(c) ==
    /\ AtPc(c, "s_clear")
    /\ root' = [root EXCEPT ![ctl[c].w] = NoRoot]
    /\ Goto(c, AfterStop(ctl[c]))
    /\ UNCHANGED <<phase, enabled, posMem, label, running, cfgVars, diskVars,
                   tkVars, thr, bootEn, calc, budgetVars>>

\* The command has returned to its event loop.
Return(c) ==
    /\ AtPc(c, "ret")
    /\ Goto(c, Idle)
    /\ UNCHANGED <<phase, widgetVars, cfgVars, diskVars, tkVars, thr, bootEn, calc, budgetVars>>

\* The Restart All button: restart_all(), for widget in widgets: widget.stop()
RestartAll ==
    /\ CanStart("ui")
    /\ Goto("ui", [Idle EXCEPT !.k = "restart", !.i = 1, !.w = WidgetNames[1],
                               !.pc = "s_run", !.solo = ~Busy("tray")])
    /\ events' = events - 1
    /\ UNCHANGED <<phase, widgetVars, cfgVars, diskVars, tkVars, thr, bootEn, calc, runs>>

\* restart_all: if widget.enabled: widget.create_widget()
RestartCheckEnabled ==
    /\ AtPc("ui", "r_enabled")
    /\ Goto("ui", IF enabled[ctl["ui"].w] THEN [ctl["ui"] EXCEPT !.pc = "c_check"]
                  ELSE AfterCreate(ctl["ui"]))
    /\ UNCHANGED <<phase, widgetVars, cfgVars, diskVars, tkVars, thr, bootEn, calc, budgetVars>>

\* on_quit of the control window (Close All) and of the tray menu (Quit):
\* for widget in widgets: widget.stop()
OnQuit(c) ==
    /\ CanStart(c)
    /\ Goto(c, [Idle EXCEPT !.k = "quit", !.i = 1, !.w = WidgetNames[1],
                            !.pc = "s_run", !.solo = ~Busy(Other(c))])
    /\ events' = events - 1
    /\ UNCHANGED <<phase, widgetVars, cfgVars, diskVars, tkVars, thr, bootEn, calc, runs>>

\* os._exit(0) after mainloop() returns: every thread and every object of
\* the process is gone; the file stays.
Exit ==
    /\ phase' = "exited"
    /\ enabled' = [w \in Widgets |-> FALSE]
    /\ posMem' = FreshPos
    /\ root' = [w \in Widgets |-> NoRoot]
    /\ label' = [w \in Widgets |-> NoRoot]
    /\ running' = [w \in Widgets |-> FALSE]
    /\ cfgEn' = [w \in Widgets |-> FALSE]
    /\ cfgPos' = FreshPos
    /\ alive' = [w \in Widgets |-> {}]
    /\ made' = [w \in Widgets |-> 0]
    /\ text' = [w \in Widgets |-> NoText]
    /\ uiq' = <<>>
    /\ thr' = [w \in Widgets |-> <<>>]
    /\ ctl' = [c \in Ctl |-> Idle]
    /\ UNCHANGED <<diskVars, bootEn, calc, budgetVars>>

\* create_main_window.on_quit: icon is None; main_root.quit(). mainloop()
\* returns and __main__ calls os._exit(0).
QuitMainLoop ==
    /\ AtPc("ui", "q_end")
    /\ Exit

QuitCallback == [k |-> "quit", w |-> "none", t |-> 0, reg |-> 0, why |-> ""]

\* create_system_tray.on_quit: icon.stop(); main_root.after(0, main_root.quit).
\* The tray's loop ends with the handler.
TrayQuitAfter ==
    /\ AtPc("tray", "q_end")
    /\ uiq' = Append(uiq, QuitCallback)
    /\ Goto("tray", [Idle EXCEPT !.k = "ended", !.pc = "ended"])
    /\ UNCHANGED <<phase, widgetVars, cfgVars, diskVars, alive, made, text,
                   thr, bootEn, calc, budgetVars>>

\* A <Configure> event of a widget's window: save_position(event) starts;
\* if self.root: self.x = winfo_x(); self.y = winfo_y(); config x, y.
SavePosition(w, p) ==
    /\ phase = "running" /\ ctl["ui"].k = "idle" /\ events > 0
    /\ root[w] # NoRoot
    /\ root[w] \in alive[w]
    /\ posMem' = [posMem EXCEPT ![w] = p]
    /\ cfgPos' = [cfgPos EXCEPT ![w] = p]
    /\ Goto("ui", [Idle EXCEPT !.k = "savepos", !.w = w, !.p = p,
                               !.pc = "p_save", !.solo = ~Busy("tray")])
    /\ events' = events - 1
    /\ UNCHANGED <<phase, enabled, root, label, running, cfgEn, diskVars,
                   tkVars, thr, bootEn, calc, runs>>

\* save_position: save_config(config)
SavePositionSave ==
    /\ AtPc("ui", "p_save")
    /\ SaveConfig
    /\ Goto("ui", [ctl["ui"] EXCEPT !.pc = "ret"])
    /\ UNCHANGED <<phase, widgetVars, cfgVars, tkVars, thr, bootEn, calc, budgetVars>>

(***************************************************************************)
(* Worker threads: ResourceWidget.update, and the data functions as far as *)
(* they succeed or raise.                                                  *)
(***************************************************************************)
Threads(w) == 1..Len(thr[w])

CanTick == phase = "running"

SetThread(w, t, rec) == thr' = [thr EXCEPT ![w][t] = rec]

\* The psutil-backed data functions (Sources) a call of get_data_func can
\* raise from. get_battery_status catches everything and returns "N/A"; get_risk_summary
\* calls get_cpu_usage, get_ram_usage and get_disk_usage itself for the
\* widgets the config has enabled.
Sources == {"cpu", "ram", "disk", "network"}

FailReasons(w) ==
    CASE w = "battery" -> {}
      [] w = "risk" -> {r \in {"cpu", "ram", "disk"} : cfgEn[r]}
      [] OTHER -> {w}

\* update: while self.running and self.root
WorkerLoop(w, t) ==
    /\ CanTick /\ t \in Threads(w) /\ thr[w][t].pc = "loop"
    /\ SetThread(w, t, [thr[w][t] EXCEPT
                          !.pc = IF running[w] /\ root[w] # NoRoot
                                 THEN "fetch" ELSE "done"])
    /\ UNCHANGED <<phase, widgetVars, cfgVars, diskVars, tkVars, ctl, bootEn, calc, budgetVars>>

\* update: value = self.get_data_func() returns
WorkerFetch(w, t) ==
    /\ CanTick /\ t \in Threads(w) /\ thr[w][t].pc = "fetch"
    /\ SetThread(w, t, [thr[w][t] EXCEPT !.pc = "post"])
    /\ UNCHANGED <<phase, widgetVars, cfgVars, diskVars, tkVars, ctl, bootEn, calc, budgetVars>>

\* update: value = self.get_data_func() raises; control enters
\* except Exception as e
WorkerFetchRaises(w, t, why) ==
    /\ CanTick /\ t \in Threads(w) /\ thr[w][t].pc = "fetch"
    /\ events > 0
    /\ why \in FailReasons(w)
    /\ SetThread(w, t, [thr[w][t] EXCEPT !.pc = "exc", !.why = why])
    /\ events' = events - 1
    /\ UNCHANGED <<phase, widgetVars, cfgVars, diskVars, tkVars, ctl, bootEn, calc, runs>>

RenderCallback(w, t) ==
    [k |-> "ok", w |-> w, t |-> t, reg |-> root[w], why |-> ""]

ErrorCallback(w, t, why) ==
    [k |-> "err", w |-> w, t |-> t, reg |-> root[w], why |-> why]

\* update: self.root.after(0, lambda: [self.label.config(...), ...]);
\* time.sleep(config["refresh_rate"]). With self.root None the attribute
\* access raises AttributeError inside the try. The callback is registered
\* through the Toplevel self.root refers to, destroyed or not.
WorkerPost(w, t) ==
    /\ CanTick /\ t \in Threads(w) /\ thr[w][t].pc = "post"
    /\ IF root[w] = NoRoot
       THEN /\ SetThread(w, t, [thr[w][t] EXCEPT !.pc = "exc", !.why = "noroot"])
            /\ UNCHANGED uiq
       ELSE /\ Len(uiq) < MaxQueue
            /\ uiq' = Append(uiq, RenderCallback(w, t))
            /\ SetThread(w, t, [thr[w][t] EXCEPT !.pc = "loop"])
    /\ UNCHANGED <<phase, widgetVars, cfgVars, diskVars, alive, made, text,
                   ctl, bootEn, calc, budgetVars>>

\* update, except Exception as e:
\*   self.root.after(0, lambda: self.label.config(text=f"Error: {e}", ...))
\* With self.root None this raises again, outside any try: the thread dies.
WorkerExcept(w, t) ==
    /\ CanTick /\ t \in Threads(w) /\ thr[w][t].pc = "exc"
    /\ IF root[w] = NoRoot
       THEN /\ SetThread(w, t, [thr[w][t] EXCEPT !.pc = "died"])
            /\ UNCHANGED uiq
       ELSE /\ Len(uiq) < MaxQueue
            /\ uiq' = Append(uiq, ErrorCallback(w, t, thr[w][t].why))
            /\ SetThread(w, t, [thr[w][t] EXCEPT !.pc = "break"])
    /\ UNCHANGED <<phase, widgetVars, cfgVars, diskVars, alive, made, text,
                   ctl, bootEn, calc, budgetVars>>

\* An except clause that goes round the while loop again instead of breaking.
AfterExceptRetries == "loop"

\* The statement that follows the except clause's after(...) call.
AfterExcept == "halted"

\* update: break. Leaving the except clause unbinds e (the cell the posted
\* lambda reads), and the thread's function returns.
WorkerBreak(w, t) ==
    /\ CanTick /\ t \in Threads(w) /\ thr[w][t].pc = "break"
    /\ SetThread(w, t, [thr[w][t] EXCEPT !.pc = AfterExcept])
    /\ UNCHANGED <<phase, widgetVars, cfgVars, diskVars, tkVars, ctl, bootEn, calc, budgetVars>>

(***************************************************************************)
(* The main loop runs a pending after(0, ...) callback.                    *)
(***************************************************************************)
\* self.label is a label of a window that still exists.
LabelAlive(w) == label[w] # NoRoot /\ label[w] \in alive[w]

\* The name e is still bound in the frame of the thread that posted cb.
ErrorBound(cb) ==
    /\ cb.t \in Threads(cb.w)
    /\ thr[cb.w][cb.t].pc = "break"

\* What the lambda's self.label.config(...) leaves on the label: on a
\* destroyed label it raises TclError, and f"Error: {e}" raises NameError
\* once e is unbound; Tk reports either and goes on.
Rendered(cb) ==
    CASE cb.k = "ok" ->
            IF LabelAlive(cb.w) THEN [kind |-> "ok", why |-> ""] ELSE text[cb.w]
      [] cb.k = "err" ->
            IF LabelAlive(cb.w) /\ ErrorBound(cb)
            THEN [kind |-> "err", why |-> cb.why] ELSE text[cb.w]

\* A callback posted by a worker runs.
RunCallback ==
    /\ phase = "running" /\ ctl["ui"].k = "idle"
    /\ uiq # <<>>
    /\ Head(uiq).k # "quit"
    /\ text' = [text EXCEPT ![Head(uiq).w] = Rendered(Head(uiq))]
    /\ uiq' = Tail(uiq)
    /\ UNCHANGED <<phase, widgetVars, cfgVars, diskVars, alive, made, thr, ctl,
                   bootEn, calc, budgetVars>>

\* main_root.quit posted by the tray's on_quit runs: mainloop() returns and
\* __main__ calls os._exit(0).
RunQuitCallback ==
    /\ phase = "running" /\ ctl["ui"].k = "idle"
    /\ uiq # <<>>
    /\ Head(uiq).k = "quit"
    /\ Exit

(***************************************************************************)
(* The data and risk functions. Percentages are psutil's one-decimal       *)
(* floats, kept in tenths of a percent.                                    *)
(***************************************************************************)
\* f"{x:.0f}" of a one-decimal value x = t / 10: round half to even.
RoundPct(t) ==
    LET q == t \div 10
        r == t % 10
    IN  IF r > 5 THEN q + 1
        ELSE IF r < 5 THEN q
        ELSE IF q % 2 = 0 THEN q ELSE q + 1

\* get_battery_status(): f"{percentage} %" or "N/A".
NA == [ok |-> FALSE, t |-> 0]
Reading(t) == [ok |-> TRUE, t |-> t]

\* One line of get_risk_summary's summary list.
Line(res, level, t) == [res |-> res, level |-> level, pct |-> RoundPct(t)]

\* The string get_risk_summary returns for an empty summary list.
AllNormal == [res |-> "none", level |-> "All systems normal.", pct |-> 0]

\* CPU and RAM blocks that emit nothing below 70.
UsageLinesFrom70(res, en, t) ==
    IF ~en THEN <<>>
    ELSE IF t >= 900 THEN <<Line(res, "CRITICAL", t)>>
    ELSE IF t >= 700 THEN <<Line(res, "HIGH", t)>>
    ELSE <<>>

\* get_risk_summary, CPU and RAM blocks: >= 90, >= 70, >= 50.
UsageLines(res, en, t) ==
    IF ~en THEN <<>>
    ELSE IF t >= 900 THEN <<Line(res, "CRITICAL", t)>>
    ELSE IF t >= 700 THEN <<Line(res, "HIGH", t)>>
    ELSE IF t >= 500 THEN <<Line(res, "MODERATE", t)>>
    ELSE <<>>

\* A Disk block with the CPU block's cut points.
DiskLinesAsUsage(en, t) == UsageLines("Disk", en, t)

\* get_risk_summary, Disk block: >= 90, >= 80, >= 50.
DiskLines(en, t) ==
    IF ~en THEN <<>>
    ELSE IF t >= 900 THEN <<Line("Disk", "CRITICAL", t)>>
    ELSE IF t >= 800 THEN <<Line("Disk", "HIGH", t)>>
    ELSE IF t >= 500 THEN <<Line("Disk", "MODERATE", t)>>
    ELSE <<>>

\* get_risk_summary, Battery block, once get_battery_status() != "N/A" held
\* and the second get_battery_status() gave b: <= 10, <= 30, <= 75.
BatteryLines(b) ==
    IF b.t <= 100 THEN <<Line("Battery", "CRITICALLY LOW", b.t)>>
    ELSE IF b.t <= 300 THEN <<Line("Battery", "LOW", b.t)>>
    ELSE IF b.t <= 750 THEN <<Line("Battery", "MODERATE", b.t)>>
    ELSE <<>>

\* get_risk_summary() with the config's enabled flags en, the readings cpu,
\* ram, disk and the two calls of get_battery_status() giving b1 and b2.
\* float("N/A".split()[0]) of the second call raises ValueError.
GetRiskSummary(en, cpu, ram, disk, b1, b2) ==
    LET usage == UsageLines("CPU", en["cpu"], cpu) \o UsageLines("RAM", en["ram"], ram)
                   \o DiskLines(en["disk"], disk)
    IN  IF en["battery"] /\ b1.ok
        THEN IF ~b2.ok THEN [raised |-> TRUE, lines |-> <<>>]
             ELSE LET all == usage \o BatteryLines(b2) IN
                  [raised |-> FALSE, lines |-> IF all = <<>> THEN <<AllNormal>> ELSE all]
        ELSE [raised |-> FALSE, lines |-> IF usage = <<>> THEN <<AllNormal>> ELSE usage]

\* update: percent = float(value.split()[0]), except Exception: percent = 0.
ParsePercent(b) == IF b.ok THEN b.t ELSE 0

\* get_risk_color(widget_name, value, theme): the key of the colors dict.
GetRiskColor(name, t) ==
    CASE name = "cpu" ->
            IF t > 750 THEN "red" ELSE IF t > 500 THEN "orange"
            ELSE IF t > 250 THEN "yellow" ELSE "green"
      [] name \in {"ram", "disk"} ->
            IF t > 900 THEN "red" ELSE IF t > 750 THEN "orange"
            ELSE IF t > 500 THEN "yellow" ELSE "green"
      [] name = "battery" ->
            IF t < 200 THEN "red" ELSE IF t < 500 THEN "orange"
            ELSE IF t < 750 THEN "yellow" ELSE "green"
      [] OTHER -> "default"

\* update, branch for cpu, ram, disk and battery: the label's color for the
\* value the data function returned.
PanelColor(name, b) == GetRiskColor(name, ParsePercent(b))

\* get_risk_level(value, thresholds): the level's name.
GetRiskLevel(value, th) ==
    IF value >= th.high THEN "High Risk"
    ELSE IF value >= th.medium THEN "Medium Risk"
    ELSE "Low Risk"

\* The thresholds __main__ gives the four widgets that have any.
Thresholds ==
    [cpu |-> [medium |-> 70, high |-> 90],
     ram |-> [medium |-> 70, high |-> 90],
     disk |-> [medium |-> 80, high |-> 90],
     battery |-> [medium |-> 30, high |-> 10]]

\* An initialize_grid_positions that places every widget on the grid, moved
\* or not.
InitializeGridAlways(cfg, sw) ==
    [w \in Widgets |->
        IF w \in DOMAIN cfg
        THEN [cfg[w] EXCEPT !.pos = GridPosition(w, sw)]
        ELSE [enabled |-> TRUE, pos |-> GridPosition(w, sw)]]

\* initialize_grid_positions over a config cfg that may lack widget entries:
\* an entry at (0, 0) gets its grid position, any other entry stays, and a
\* missing entry is added enabled at its grid position.
InitializeGridConfig(cfg, sw) ==
    [w \in Widgets |->
        IF w \in DOMAIN cfg
        THEN IF cfg[w].pos = <<0, 0>>
             THEN [cfg[w] EXCEPT !.pos = GridPosition(w, sw)]
             ELSE cfg[w]
        ELSE [enabled |-> TRUE, pos |-> GridPosition(w, sw)]]

\* The members of widget_config.json's top-level object, in file order, as
\* json.dump writes them: no name twice.
RECURSIVE ParseMembers(_, _)
\* json.load: the dict built member by member (keys in insertion order).
ParseMembers(members, d) ==
    IF members = <<>> THEN d
    ELSE LET mb == Head(members) IN
         ParseMembers(Tail(members),
            [keys |-> IF mb.key \in DOMAIN d.val THEN d.keys ELSE Append(d.keys, mb.key),
             val |-> [k \in DOMAIN d.val \cup {mb.key} |->
                        IF k = mb.key THEN mb.val ELSE d.val[k]]])

EmptyDict == [keys |-> <<>>, val |-> <<>>]

\* default_config of load_config, as a dict.
DefaultConfig ==
    ParseMembers(<<[key |-> "cpu_widget", val |-> "on"],
                   [key |-> "refresh_rate", val |-> "2.0"]>>, EmptyDict)

\* A load_config that keeps only the names default_config has.
LoadConfigKnownKeys(file) ==
    LET d == IF file.exists THEN ParseMembers(file.members, EmptyDict) ELSE DefaultConfig
        known == {"cpu_widget", "refresh_rate"}
        ks == SelectSeq(d.keys, LAMBDA k : k \in known)
    IN  [keys |-> ks, val |-> [k \in DOMAIN d.val \cap known |-> d.val[k]]]

\* load_config(): json.load(f) if the file exists, else default_config.
LoadConfig(file) ==
    IF file.exists THEN ParseMembers(file.members, EmptyDict) ELSE DefaultConfig

\* save_config(config): json.dump writes the dict's items in order.
DumpConfig(d) ==
    [exists |-> TRUE,
     members |-> [i \in 1..Len(d.keys) |-> [key |-> d.keys[i], val |-> d.val[d.keys[i]]]]]

(***************************************************************************)
(* Specifications.                                                         *)
(***************************************************************************)
\* The statements of toggle, create_widget and stop, on either thread.
CallStep(c) ==
    \/ ToggleSetEnabled(c)
    \/ ToggleSetConfig(c)
    \/ ToggleSave(c)
    \/ ToggleBranch(c)
    \/ CreateCheckEnabled(c)
    \/ CreateSurface(c)
    \/ CreateStartThread(c)
    \/ StopClearRunning(c)
    \/ StopDestroy(c)
    \/ StopClearRoot(c)
    \/ Return(c)

WorkerStep(w, t) ==
    \/ WorkerLoop(w, t)
    \/ WorkerFetch(w, t)
    \/ \E why \in Sources : WorkerFetchRaises(w, t, why)
    \/ WorkerPost(w, t)
    \/ WorkerExcept(w, t)
    \/ WorkerBreak(w, t)

\* Threads a widget can have started within the event bound.
ThreadIds == 1..(MaxEvents + 2)

\* The widgets whose toggle entries and Kill buttons the user works in the
\* panel specification.
ToggleFocus == {"cpu"}

\* Panels under toggles from both control surfaces.
NextPanel ==
    \/ \E c \in Ctl : \E w \in ToggleFocus : ToggleWidget(c, w)
    \/ \E c \in Ctl : CallStep(c)
    \/ \E w \in Widgets : \E p \in MovedPositions : SavePosition(w, p)
    \/ SavePositionSave
    \/ RunCallback
    \/ \E w \in Widgets : \E t \in ThreadIds : WorkerStep(w, t)

\* The file the first run starts from enables one of these sets of widgets.
StartSets == {{}, {"cpu"}}

Init == InitWith(StartSets, MaxEvents, 0) /\ calc = NoCalc

\* Panels under toggles from both control surfaces, position events and
\* failing metric sources.
Spec == Init /\ [][NextPanel]_vars

\* The same, with the scheduling the platform gives: every thread of update
\* gets to run, the main loop runs the callbacks pending, and a command's
\* handler runs to its end on its thread.
SpecLive ==
    /\ Init /\ [][NextPanel]_vars
    /\ \A w \in Widgets : \A t \in ThreadIds : WF_vars(WorkerStep(w, t))
    /\ WF_vars(RunCallback)
    /\ \A c \in Ctl : WF_vars(CallStep(c))

(***************************************************************************)
(* The functions on their own: an input is drawn, then the function is     *)
(* applied to it. The widgets stay as a run with every panel disabled      *)
(* leaves them.                                                            *)
(***************************************************************************)
programVars == <<phase, widgetVars, cfgVars, diskVars, tkVars, thr, ctl, bootEn, budgetVars>>

\* Largest whole percentage get_risk_level is applied to.
MaxValue == 100

\* psutil readings, in tenths of a percent.
Readings == {400, 600, 850, 895, 950}

\* Results of get_battery_status().
BatteryReadings == {NA, Reading(50), Reading(200), Reading(800)}

\* Sets of widgets the config has enabled when get_risk_summary runs.
EnabledCases == {Widgets, Widgets \ {"battery"}, Widgets \ {"cpu"}}

\* Readings on both sides of every cut point of get_risk_summary, in tenths.
CutReadings == {0, 499, 500, 699, 700, 799, 800, 899, 900, 1000}
BatteryCutReadings ==
    {NA} \cup {Reading(t) : t \in {0, 100, 101, 300, 301, 750, 751, 1000}}

\* The resources get_risk_summary looks at.
Summarized == {"cpu", "ram", "disk", "battery"}

\* Positions a config entry holds when initialize_grid_positions runs.
StoredPositions == {<<0, 0>>, <<0, 50>>, <<40, 60>>}

\* Widget entries the config holds when initialize_grid_positions runs.
StoredEntries == {Widgets, Widgets \ {"network"}}

\* Screen widths initialize_grid_positions is run with.
GridScreenWidths == {1920, 1210}

\* Names and values of the members of a widget_config.json.
MemberKeys == {"cpu_widget", "refresh_rate", "extra"}
MemberValues == {"on", "off"}

\* The files json.dump can have written with these members, or no file.
ConfigFiles ==
    {[exists |-> FALSE, members |-> <<>>]} \cup
    {[exists |-> TRUE, members |-> ms] :
        ms \in {q \in UNION {[1..n -> [key : MemberKeys, val : MemberValues]] : n \in 0..3} :
                  \A i, j \in DOMAIN q : i # j => q[i].key # q[j].key}}

Input(fn, in) == [fn |-> fn, pc |-> "input", in |-> in, out |-> <<>>]

InitInputs ==
    \/ \E es \in EnabledCases : \E cpu, ram, disk \in Readings :
       \E b1, b2 \in BatteryReadings :
          calc = Input("get_risk_summary",
                       [en |-> [w \in Widgets |-> w \in es], cpu |-> cpu, ram |-> ram,
                        disk |-> disk, b1 |-> b1, b2 |-> b2])
    \/ \E es \in SUBSET Summarized : \E cpu, ram, disk \in CutReadings :
       \E b \in BatteryCutReadings :
          calc = Input("get_risk_summary",
                       [en |-> [w \in Widgets |-> w \in es \cup {"risk", "network"}],
                        cpu |-> cpu, ram |-> ram, disk |-> disk, b1 |-> b, b2 |-> b])
    \/ \E b \in BatteryReadings \cup {Reading(t) : t \in Readings} :
          calc = Input("update", [name |-> "battery", value |-> b])
    \/ \E w \in Widgets : \E v \in 0..MaxValue :
          calc = Input("get_risk_color", [name |-> w, value |-> v])
    \/ \E w \in DOMAIN Thresholds : \E v \in 0..MaxValue :
          calc = Input("get_risk_level", [name |-> w, value |-> v])
    \/ \E ws \in StoredEntries : \E sw \in GridScreenWidths :
       \E cfg \in [ws -> [enabled : BOOLEAN, pos : StoredPositions]] :
          /\ \A w \in ws : cfg[w].enabled = (w # "disk")
          /\ calc = Input("initialize_grid_positions", [cfg |-> cfg, sw |-> sw])
    \/ \E f \in ConfigFiles : calc = Input("load_config", f)

InitFunctions == InitWith({{}}, 0, 0) /\ InitInputs

AtInput(fn) == calc.fn = fn /\ calc.pc = "input"

\* value = get_risk_summary() in the risk panel's update.
ApplyRiskSummary ==
    /\ AtInput("get_risk_summary")
    /\ LET a == calc.in IN
       calc' = [calc EXCEPT !.pc = "done",
                  !.out = GetRiskSummary(a.en, a.cpu, a.ram, a.disk, a.b1, a.b2)]
    /\ UNCHANGED programVars

\* update of a percentage panel: the color it posts for the value.
ApplyPanelColor ==
    /\ AtInput("update")
    /\ calc' = [calc EXCEPT !.pc = "done",
                  !.out = [color |-> PanelColor(calc.in.name, calc.in.value)]]
    /\ UNCHANGED programVars

\* get_risk_color(widget_name, value, theme) for a whole percentage
ApplyRiskColor ==
    /\ AtInput("get_risk_color")
    /\ calc' = [calc EXCEPT !.pc = "done",
                  !.out = [color |-> GetRiskColor(calc.in.name, 10 * calc.in.value)]]
    /\ UNCHANGED programVars

\* get_risk_level(value, thresholds)
ApplyRiskLevel ==
    /\ AtInput("get_risk_level")
    /\ calc' = [calc EXCEPT !.pc = "done",
                  !.out = [level |-> GetRiskLevel(calc.in.value, Thresholds[calc.in.name])]]
    /\ UNCHANGED programVars

\* initialize_grid_positions(), a first run
ApplyGrid ==
    /\ AtInput("initialize_grid_positions")
    /\ calc' = [calc EXCEPT !.pc = "once",
                  !.out = [once |-> InitializeGridConfig(calc.in.cfg, calc.in.sw)]]
    /\ UNCHANGED programVars

\* initialize_grid_positions() again, on the config the first run left
ApplyGridAgain ==
    /\ calc.fn = "initialize_grid_positions" /\ calc.pc = "once"
    /\ calc' = [calc EXCEPT !.pc = "twice",
                  !.out = [once |-> calc.out.once,
                           twice |-> InitializeGridConfig(calc.out.once, calc.in.sw)]]
    /\ UNCHANGED programVars

\* config = load_config()
ApplyLoad ==
    /\ AtInput("load_config")
    /\ calc' = [calc EXCEPT !.pc = "loaded", !.out = [config |-> LoadConfig(calc.in)]]
    /\ UNCHANGED programVars

\* save_config(config) of what load_config returned
ApplySave ==
    /\ calc.fn = "load_config" /\ calc.pc = "loaded"
    /\ calc' = [calc EXCEPT !.pc = "saved",
                  !.out = [config |-> calc.out.config, file |-> DumpConfig(calc.out.config)]]
    /\ UNCHANGED programVars

NextFunctions ==
    \/ ApplyRiskSummary
    \/ ApplyPanelColor
    \/ ApplyRiskColor
    \/ ApplyRiskLevel
    \/ ApplyGrid
    \/ ApplyGridAgain
    \/ ApplyLoad
    \/ ApplySave

\* The data, risk, layout and config functions applied to drawn inputs.
SpecFunctions == InitFunctions /\ [][NextFunctions]_vars

\* Positions a <Configure> event reports when the user also drags a window
\* into the screen's top left corner.
ReportedPositions == MovedPositions \cup {<<0, 0>>}

InitLayout == InitWith({{"cpu"}}, MaxEvents, MaxRuns) /\ calc = NoCalc

\* Position events, toggles and quits, and the run that follows a quit.
NextLayout ==
    \/ \E c \in Ctl : \E w \in ToggleFocus : ToggleWidget(c, w)
    \/ \E c \in Ctl : CallStep(c)
    \/ \E w \in Widgets : \E p \in ReportedPositions : SavePosition(w, p)
    \/ SavePositionSave
    \/ \E c \in Ctl : OnQuit(c)
    \/ QuitMainLoop
    \/ TrayQuitAfter
    \/ RunQuitCallback
    \/ Startup

\* Widget positions over moves, stops, starts and runs.
SpecLayout == InitLayout /\ [][NextLayout]_vars

\* The panel specification with config writes that can fail.
NextWriteFail ==
    \/ NextPanel
    \/ \E c \in Ctl : ToggleSaveRaises(c)
    \/ \E c \in Ctl : ReturnRaised(c)

SpecWriteFail == Init /\ [][NextWriteFail]_vars

\* The file the first run starts from enables the cpu and the risk panel.
RiskSets == {{"cpu", "risk"}}

InitRisk == InitWith(RiskSets, MaxEvents, 0) /\ calc = NoCalc

\* The panel specification started with the risk panel running.
SpecRisk == InitRisk /\ [][NextPanel]_vars

\* The registry: every combination of enabled flags in the file.
AllSets == SUBSET Widgets

InitRegistry == InitWith(AllSets, MaxCommands, MaxRuns) /\ calc = NoCalc

\* The registry under Restart All, quit from either surface and new runs.
NextRegistry ==
    \/ RestartAll
    \/ RestartCheckEnabled
    \/ \E c \in Ctl : OnQuit(c)
    \/ \E c \in Ctl :
         \/ CreateCheckEnabled(c)
         \/ CreateSurface(c)
         \/ CreateStartThread(c)
         \/ StopClearRunning(c)
         \/ StopDestroy(c)
         \/ StopClearRoot(c)
         \/ Return(c)
    \/ QuitMainLoop
    \/ TrayQuitAfter
    \/ RunQuitCallback
    \/ Startup

SpecRegistry == InitRegistry /\ [][NextRegistry]_vars

(***************************************************************************)
(* Properties.                                                             *)
(***************************************************************************)
\* Running: the widget has a window that exists and its loop flag is set.
\* Stopped: no window and the loop flag cleared.
Running(w) == root[w] # NoRoot /\ root[w] \in alive[w] /\ running[w]
Stopped(w) == root[w] = NoRoot /\ ~running[w]

\* Thread c has returned from toggle(en) on w, and the other control thread
\* ran no command while it was in toggle.
ToggleReturned(c, w, en) ==
    /\ phase = "running"
    /\ ctl[c].k = "toggle" /\ ctl[c].pc = "ret" /\ ctl[c].solo
    /\ ctl[c].w = w /\ ctl[c].en = en

\* C1: when toggle(enable) on a panel has returned and no other command was
\* interleaved with it, the panel's enabled flag in memory, in the shared
\* config and in the file all equal enable, and the panel is Running if
\* enable is true and Stopped if it is false.
ToggleContract ==
    \A c \in Ctl : \A w \in Widgets : \A en \in BOOLEAN :
        ToggleReturned(c, w, en) =>
            /\ enabled[w] = en
            /\ cfgEn[w] = en
            /\ diskEn[w] = en
            /\ IF en THEN Running(w) ELSE Stopped(w)

\* A toggle(True) that created the window and started the thread has
\* returned on the tray thread.
ToggleContractWitness ==
    /\ ToggleReturned("tray", "cpu", TRUE)
    /\ ~bootEn["cpu"]
    /\ Running("cpu")
    /\ Len(thr["cpu"]) = 1

\* The config has been mutated by thread c and its save is still to come.
MutatingConfig(c) == phase = "running" /\ ctl[c].pc \in {"t_save", "p_save"}

\* C8: mutations of the shared config are serialized: never are two
\* mutate-and-persist operations in progress at the same time.
SerializedMutations == ~(MutatingConfig("ui") /\ MutatingConfig("tray"))

\* C9: whenever no toggle is in progress, each panel's in-memory enabled
\* flag equals its enabled flag in the shared config.
SurfacesAgree ==
    (phase = "running" /\ \A c \in Ctl : ctl[c].k # "toggle") =>
        \A w \in Widgets : enabled[w] = cfgEn[w]

\* The statements of update a thread is at after get_data_func raised.
Halting == {"exc", "break", "halted", "died"}

\* The thread's function has returned or died.
Terminal == {"done", "halted", "died"}

\* Thread t of panel w has ended and no callback it posted is pending.
TaskQuiet(w, t) ==
    /\ t \in Threads(w) /\ thr[w][t].pc \in Terminal
    /\ \A i \in DOMAIN uiq : ~(uiq[i].k # "quit" /\ uiq[i].w = w /\ uiq[i].t = t)

\* Panel w was off at startup, was started once, by a toggle(True), and a
\* toggle(False) has now returned with nothing interleaved.
OnThenOff(w) ==
    /\ \E c \in Ctl : ToggleReturned(c, w, FALSE)
    /\ ~bootEn[w] /\ made[w] = 1 /\ Len(thr[w]) = 1

\* C2: toggle(True) followed by toggle(False) leaves the panel Stopped with
\* enabled false in memory, in the config and in the file; and unless a later
\* toggle or restart makes a new window, from some point on the thread the
\* toggle(True) started has ended and nothing it posted is left to render.
NoResidualTask ==
    \A w \in Widgets :
        /\ [](OnThenOff(w) =>
                (Stopped(w) /\ ~enabled[w] /\ ~cfgEn[w] /\ ~diskEn[w]))
        /\ OnThenOff(w) ~> [](TaskQuiet(w, 1) \/ made[w] > 1)

\* toggle(True) then toggle(False) on cpu have used the event bound, and the
\* thread of the toggle(True) has ended with nothing pending.
NoResidualTaskWitness ==
    /\ OnThenOff("cpu") /\ events = 0
    /\ TaskQuiet("cpu", 1)

\* C4: a thread of update whose get_data_func call raised never returns to
\* the head of the loop, to get_data_func or to posting a render, whatever
\* toggles follow.
SingleHalt ==
    [][\A w \in Widgets : \A t \in ThreadIds :
          (phase' = "running" /\ t \in Threads(w) /\ thr[w][t].pc \in Halting) =>
              (t \in Threads(w)' /\ thr'[w][t].pc \in Halting)]_vars

\* The cpu panel's thread has halted on a failure of the cpu source while the
\* panel is still Running (its window stays, frozen).
SingleHaltWitness ==
    /\ Running("cpu")
    /\ \E t \in Threads("cpu") :
          thr["cpu"][t].pc = "halted" /\ thr["cpu"][t].why = "cpu"

\* C5: a thread of update that is in its except clause or has halted there
\* belongs to the panel whose own source failed (or lost its window to
\* stop()): no panel halts on another resource's failure.
FailureContained ==
    \A w \in Widgets : \A t \in Threads(w) :
        thr[w][t].pc \in Halting => thr[w][t].why \in {w, "noroot"}

\* The main loop runs a callback a worker posted.
RenderRuns ==
    /\ phase = "running" /\ phase' = "running"
    /\ uiq # <<>> /\ Head(uiq).k # "quit"
    /\ uiq' = Tail(uiq) /\ ctl' = ctl /\ thr' = thr

\* C6: when the error callback of a failed thread runs for a panel that was
\* not stopped since (the window it was posted through is still the panel's
\* and exists), the label shows the error with the failure reason.
ErrorShown ==
    [][(/\ RenderRuns
        /\ Head(uiq).k = "err"
        /\ Head(uiq).reg = root[Head(uiq).w]
        /\ LabelAlive(Head(uiq).w)) =>
            text'[Head(uiq).w] = [kind |-> "err", why |-> Head(uiq).why]]_vars

\* A call of stop() on panel w has not returned yet.
StopInProgress(w) ==
    \E c \in Ctl : ctl[c].w = w /\ ctl[c].pc \in {"s_run", "s_destroy", "s_clear"}

\* C7: a callback a worker posted that the main loop runs when no stop() of
\* its panel is in progress was posted through a window that still exists:
\* stop() cancelled the rest before it returned, and none was posted through
\* a destroyed window.
NoRenderAfterStop ==
    [][(RenderRuns /\ ~StopInProgress(Head(uiq).w)) =>
          Head(uiq).reg \in alive[Head(uiq).w]]_vars

\* Restart All has returned, and the tray ran no command while it ran.
RestartReturned ==
    /\ phase = "running"
    /\ ctl["ui"].k = "restart" /\ ctl["ui"].pc = "ret" /\ ctl["ui"].solo

\* C3: after Restart All has completed, whatever the enabled flags, exactly
\* the enabled panels are Running and exactly the disabled ones are Stopped.
RestartContract ==
    RestartReturned =>
        /\ \A w \in Widgets : IF enabled[w] THEN Running(w) ELSE Stopped(w)
        /\ Cardinality({w \in Widgets : Running(w)})
             = Cardinality({w \in Widgets : enabled[w]})

\* Restart All has completed with disk disabled and the rest enabled: five
\* panels Running on new windows, one Stopped.
RestartContractWitness ==
    /\ RestartReturned
    /\ {w \in Widgets : enabled[w]} = Widgets \ {"disk"}
    /\ Cardinality({w \in Widgets : Running(w) /\ root[w] = 2}) = 5
    /\ Stopped("disk")

\* A step of stop(), Restart All or quit: thread c takes it inside, or into,
\* restart_all or on_quit.
RestartOrQuitStep ==
    \E c \in Ctl :
        /\ ctl'[c] # ctl[c]
        /\ ctl[c].k \in {"restart", "quit"} \/ ctl'[c].k \in {"restart", "quit"}

\* C10: no step of stop(), Restart All or quit changes a panel's enabled
\* flag, in memory, in the shared config or in the file; the exit leaves the
\* file's flags; and the next run starts exactly the panels that were enabled
\* in the run that quit, with their flags as they were.
EnabledPersists ==
    [][/\ (RestartOrQuitStep /\ phase' = "running") =>
             (enabled' = enabled /\ cfgEn' = cfgEn /\ diskEn' = diskEn)
       /\ (phase' = "exited") => (diskEn' = diskEn /\ diskEn = bootEn)
       /\ (phase = "exited" /\ phase' = "running") =>
             /\ diskEn' = diskEn
             /\ enabled' = bootEn
             /\ \A w \in Widgets :
                   IF bootEn[w] THEN Running(w)' ELSE Stopped(w)']_vars

\* A second run has started after a quit, with some panels enabled and some
\* disabled.
EnabledPersistsWitness ==
    /\ phase = "running"
    /\ runs = MaxRuns - 1
    /\ Running("cpu") /\ Running("risk")
    /\ Stopped("disk") /\ ~diskEn["disk"]

\* mainloop() has returned and os._exit(0) ends the process.
ProcessExits == phase = "running" /\ phase' = "exited"

\* C11: when the process exits, every panel's running flag has been cleared
\* (its thread told to stop) and the tray's icon.stop() has been called.
SignalledBeforeExit ==
    [][ProcessExits =>
          /\ \A w \in Widgets : ~running[w]
          /\ ctl["tray"].k = "ended"]_vars

Done(fn) == calc.fn = fn /\ calc.pc = "done"

HasBatteryLine(lines) == \E i \in DOMAIN lines : lines[i].res = "Battery"

\* C12: when get_battery_status() returns "N/A", get_risk_summary emits no
\* battery line, and the battery panel's color is not the color of the
\* value 0.
UnavailableExcluded ==
    /\ (Done("get_risk_summary") /\ ~calc.in.b1.ok) => ~HasBatteryLine(calc.out.lines)
    /\ (Done("update") /\ calc.in.name = "battery" /\ ~calc.in.value.ok) =>
          calc.out.color # GetRiskColor("battery", 0)

\* get_risk_summary has run with CPU 95, RAM 60, Disk 85, the battery
\* unavailable and every panel enabled.
RiskExample ==
    /\ Done("get_risk_summary")
    /\ \A w \in Widgets : calc.in.en[w]
    /\ calc.in.cpu = 950 /\ calc.in.ram = 600 /\ calc.in.disk = 850
    /\ ~calc.in.b1.ok

\* C13, as the code has it: for CPU 95, RAM 60, Disk 85, battery N/A and all
\* panels enabled the summary is the three lines "CPU usage is CRITICAL
\* (95%)", "RAM usage is MODERATE (60%)", "Disk usage is HIGH (85%)", in
\* that order, with no battery line.
RiskExampleThreeLines ==
    RiskExample =>
        /\ ~calc.out.raised
        /\ calc.out.lines = <<[res |-> "CPU", level |-> "CRITICAL", pct |-> 95],
                              [res |-> "RAM", level |-> "MODERATE", pct |-> 60],
                              [res |-> "Disk", level |-> "HIGH", pct |-> 85]>>

RiskExampleWitness ==
    RiskExample /\ Len(calc.out.lines) = 3 /\ ~HasBatteryLine(calc.out.lines)

\* C13, as stated: the summary is exactly the two lines for CPU and Disk,
\* with no RAM line and no battery line.
RiskExampleTwoLines ==
    RiskExample =>
        calc.out.lines = <<[res |-> "CPU", level |-> "CRITICAL", pct |-> 95],
                           [res |-> "Disk", level |-> "HIGH", pct |-> 85]>>

\* How severe a level of get_risk_level is.
Severity(level) ==
    CASE level = "High Risk" -> 2
      [] level = "Medium Risk" -> 1
      [] OTHER -> 0

\* C14: for cpu, ram and disk get_risk_level returns High at or above high,
\* Medium from medium up to high and Low below medium; and with the
\* battery's thresholds a lower value never gets a less severe level than a
\* higher one.
TieringByThresholds ==
    Done("get_risk_level") =>
        LET v == calc.in.value
            th == Thresholds[calc.in.name]
        IN  /\ calc.in.name # "battery" =>
                 calc.out.level = (IF v >= th.high THEN "High Risk"
                                   ELSE IF v >= th.medium THEN "Medium Risk"
                                   ELSE "Low Risk")
            /\ calc.in.name = "battery" =>
                 \A v2 \in 0..MaxValue :
                     v2 > v => Severity(calc.out.level) >=
                                 Severity(GetRiskLevel(v2, Thresholds["battery"]))

\* C15: a second run of initialize_grid_positions changes nothing the first
\* left, and neither run moves an entry that was not at (0, 0).
GridIdempotent ==
    (calc.fn = "initialize_grid_positions" /\ calc.pc = "twice") =>
        /\ calc.out.twice = calc.out.once
        /\ \A w \in DOMAIN calc.in.cfg :
              calc.in.cfg[w].pos # <<0, 0>> =>
                  /\ calc.out.once[w] = calc.in.cfg[w]
                  /\ calc.out.twice[w] = calc.in.cfg[w]

\* Two runs on a config with an entry at (0, 0), a moved entry and a
\* missing entry.
GridIdempotentWitness ==
    /\ calc.fn = "initialize_grid_positions" /\ calc.pc = "twice"
    /\ "network" \notin DOMAIN calc.in.cfg
    /\ calc.in.cfg["cpu"].pos = <<0, 0>> /\ calc.out.once["cpu"].pos # <<0, 0>>
    /\ calc.in.cfg["ram"].pos = <<0, 50>>

\* C16: saving what load_config returned for an existing file writes the
\* file's members back, each name with its value, in the file's order,
\* names default_config does not have included.
LoadSaveFixedPoint ==
    (calc.fn = "load_config" /\ calc.pc = "saved" /\ calc.in.exists) =>
        calc.out.file = calc.in

\* A file with three members, one of them unknown to default_config, has
\* been loaded and saved.
LoadSaveFixedPointWitness ==
    /\ calc.fn = "load_config" /\ calc.pc = "saved" /\ calc.in.exists
    /\ Len(calc.in.members) = 3
    /\ calc.in.members[1].key = "extra"
    /\ calc.out.file.members[1].key = "extra"

\* Thread t of panel w passes the while test of update and goes on to call
\* get_data_func.
EntersTick(w, t) ==
    /\ phase = "running" /\ phase' = "running"
    /\ t \in Threads(w)
    /\ thr[w][t].pc = "loop" /\ thr'[w][t].pc = "fetch"

\* C17: only the thread the latest create_widget of a panel started goes
\* round update's loop: once a panel has been stopped and started again, the
\* thread of the earlier run does not tick beside the new one.
OnlyNewestTicks ==
    [][\A w \in Widgets : \A t \in ThreadIds :
          EntersTick(w, t) => t = Len(thr[w])]_vars

\* create_widget makes a Toplevel for panel w.
SurfaceMade(w) == phase = "running" /\ phase' = "running" /\ made'[w] > made[w]

\* C18: create_widget makes a window only for a panel that is enabled and
\* has no window, so no panel has two windows and no disabled panel gets
\* one, whatever toggles the tray and the control window interleave.
CreateOnlyWhenStopped ==
    [][\A w \in Widgets :
          SurfaceMade(w) => (enabled[w] /\ alive[w] = {})]_vars

\* C19: while restart_all runs, no window is made as long as a panel later
\* in the widgets list still has the window it had when restart_all was
\* called.
RestartStopsAllFirst ==
    [][\A w \in Widgets :
          (SurfaceMade(w) /\ ctl["ui"].k = "restart") =>
              \A w2 \in Widgets :
                  Index(w2) > ctl["ui"].i => root[w2] = NoRoot]_vars

\* A window of panel w is made or destroyed.
SurfaceChanges(w) ==
    /\ phase = "running" /\ phase' = "running"
    /\ alive'[w] # alive[w]

\* C20: a step that makes or destroys a window is not a step of the tray
\* thread: the tray's toggle and quit commands leave Toplevel() and
\* destroy() to the main loop.
SurfacesOnMainLoop ==
    [][(\E w \in Widgets : SurfaceChanges(w)) =>
          ctl'["tray"].pc = ctl["tray"].pc]_vars

\* save_position has written the file for the position its event reported.
PositionSaved ==
    /\ phase = "running" /\ phase' = "running"
    /\ ctl["ui"].k = "savepos" /\ ctl["ui"].pc = "p_save" /\ ctl'["ui"].pc = "ret"

\* A new run has started from the file.
RunStarts == phase = "exited" /\ phase' = "running"

\* C21: when save_position is done, widget.x/y, the config and the file hold
\* the reported position; nothing but a position event changes them; and a
\* panel started later, in this run or the next, gets the position last
\* reported for it.
PositionKept ==
    [][/\ PositionSaved =>
             LET w == ctl["ui"].w IN
             /\ posMem'[w] = ctl["ui"].p
             /\ cfgPos'[w] = ctl["ui"].p
             /\ diskPos'[w] = ctl["ui"].p
       /\ (phase = "running" /\ phase' = "running" /\ ctl'["ui"].pc # "p_save") =>
             (posMem' = posMem /\ cfgPos' = cfgPos)
       /\ \A w \in Widgets : SurfaceMade(w) => posMem[w] = cfgPos[w]
       /\ RunStarts => posMem' = diskPos]_vars

\* The tier of a usage reading t for ascending cut points c1 < c2 < c3.
UsageTier(t, c1, c2, c3) ==
    IF t >= c3 THEN "CRITICAL" ELSE IF t >= c2 THEN "HIGH"
    ELSE IF t >= c1 THEN "MODERATE" ELSE "none"

\* The tier get_risk_summary's input a has for resource r, "none" when r is
\* disabled, unavailable or below (for the battery: above) every cut point.
ExpectedTier(a, r) ==
    IF ~a.en[r] THEN "none"
    ELSE CASE r = "cpu" -> UsageTier(a.cpu, 500, 700, 900)
           [] r = "ram" -> UsageTier(a.ram, 500, 700, 900)
           [] r = "disk" -> UsageTier(a.disk, 500, 800, 900)
           [] r = "battery" ->
                IF ~a.b1.ok THEN "none"
                ELSE IF a.b1.t <= 100 THEN "CRITICALLY LOW"
                ELSE IF a.b1.t <= 300 THEN "LOW"
                ELSE IF a.b1.t <= 750 THEN "MODERATE" ELSE "none"

\* The name a summary line uses for resource r, and the resource's place.
LineName(r) ==
    CASE r = "cpu" -> "CPU" [] r = "ram" -> "RAM" [] r = "disk" -> "Disk"
      [] r = "battery" -> "Battery"
Place(name) ==
    CASE name = "CPU" -> 1 [] name = "RAM" -> 2 [] name = "Disk" -> 3
      [] name = "Battery" -> 4 [] OTHER -> 0

\* get_risk_summary has returned for one reading per resource.
Summarised ==
    /\ Done("get_risk_summary") /\ ~calc.out.raised
    /\ calc.in.b1 = calc.in.b2

\* C22: the summary's lines are in the order CPU, RAM, Disk, Battery, at
\* most one per resource; a resource has a line exactly when it is enabled
\* and its reading reaches a cut point, with the tier of the cut points
\* CPU/RAM 50, 70, 90, Disk 50, 80, 90, Battery 10, 30, 75 downwards; and
\* the result is "All systems normal." exactly when no resource has a line.
SummaryByCutPoints ==
    Summarised =>
        LET a == calc.in
            lines == IF calc.out.lines = <<AllNormal>> THEN <<>> ELSE calc.out.lines
        IN  /\ \A i, j \in DOMAIN lines :
                  i < j => (0 < Place(lines[i].res) /\ Place(lines[i].res) < Place(lines[j].res))
            /\ \A i \in DOMAIN lines : Place(lines[i].res) > 0
            /\ \A r \in Summarized :
                  /\ (\E i \in DOMAIN lines : lines[i].res = LineName(r))
                        <=> ExpectedTier(a, r) # "none"
                  /\ \A i \in DOMAIN lines :
                        lines[i].res = LineName(r) => lines[i].level = ExpectedTier(a, r)
            /\ (calc.out.lines = <<AllNormal>>)
                  <=> (\A r \in Summarized : ExpectedTier(a, r) = "none")
            /\ calc.out.lines # <<>>

\* A summary of four lines, with the disk just below its 90 cut point and
\* the battery at or below 10.
SummaryByCutPointsWitness ==
    /\ Summarised
    /\ Len(calc.out.lines) = 4
    /\ calc.in.disk = 899 /\ calc.out.lines[3].level = "HIGH"
    /\ calc.out.lines[4].level = "CRITICALLY LOW"

\* C23: get_risk_color gives cpu green exactly below 25, yellow from 25,
\* orange from 50 and red from 75; ram and disk green below 50, yellow
\* between 50 and 75, orange between 75 and 90 and red above 90; battery red
\* exactly below 20, orange below 50, yellow below 75, green otherwise; and
\* risk and network the neutral color for every value.
ColorByBreakpoints ==
    Done("get_risk_color") =>
        LET v == calc.in.value
            c == calc.out.color
            n == calc.in.name
        IN  /\ n = "cpu" =>
                 c = (IF v < 25 THEN "green" ELSE IF v < 50 THEN "yellow"
                      ELSE IF v < 75 THEN "orange" ELSE "red")
            /\ n \in {"ram", "disk"} =>
                 /\ v < 50 => c = "green"
                 /\ (50 < v /\ v < 75) => c = "yellow"
                 /\ (75 < v /\ v < 90) => c = "orange"
                 /\ v > 90 => c = "red"
            /\ n = "battery" =>
                 c = (IF v < 20 THEN "red" ELSE IF v < 50 THEN "orange"
                      ELSE IF v < 75 THEN "yellow" ELSE "green")
            /\ n \in {"risk", "network"} => c = "default"

\* toggle(en) on panel w has ended in the exception of a failed config
\* write, with nothing interleaved.
ToggleWriteFailed(c, w, en) ==
    /\ phase = "running"
    /\ ctl[c].k = "toggle" /\ ctl[c].pc = "raised" /\ ctl[c].solo
    /\ ctl[c].w = w /\ ctl[c].en = en

\* C24: after a toggle(enable) whose config write failed, widget.enabled is
\* the requested value and the panel is Running exactly if it is enabled.
ConsistentAfterWriteFailure ==
    \A c \in Ctl : \A w \in Widgets : \A en \in BOOLEAN :
        ToggleWriteFailed(c, w, en) =>
            /\ enabled[w] = en
            /\ IF enabled[w] THEN Running(w) ELSE Stopped(w)

====
